---- MODULE Spec2Model ----
(***************************************************************************)
(* Model of the wordcount library (src/src/lib.rs): count(input, option)   *)
(* reads a UTF-8 byte source line by line and folds the units of every     *)
(* line (characters, \w+ matches or the line itself) into a frequency map. *)
(*                                                                         *)
(* A String is modelled as Rust stores it: the sequence of its UTF-8       *)
(* bytes.  A char is its Unicode scalar value.  The map is a function from *)
(* Strings to naturals whose DOMAIN is the key set.                        *)
(***************************************************************************)
EXTENDS Naturals, Sequences, FiniteSets, TLC

VARIABLES
    input,      \* bytes behind the BufRead handed to the running call
    option,     \* CountOption of the call
    pos,        \* bytes of input already consumed by input.lines()
    pending,    \* units of the current line the inner loop has not counted yet
    freqs,      \* the HashMap<String, usize> being built
    pc,         \* "idle", "next" (loop head), "body", "returned", "panicked"
    seen,       \* history: the units counted so far by the running call
    history,    \* history: one record per call that returned
    lines       \* line contents the rendered inputs are built from (SpecLines)

vars == <<input, option, pos, pending, freqs, pc, seen, history, lines>>

----------------------------------------------------------------------------
(* Bounds *)

MaxLen == 5
MaxRepeatLen == 4
MaxCalls == 2
MaxLines == 2
MaxLineLen == 2

----------------------------------------------------------------------------
(* Bytes and inputs *)

LF == 10
CR == 13

\* 'a', ' ', '\n', '\r', and the bytes of U+00A9 (C2 A9) and U+00E9 (C3 A9);
\* C2, C3 and A9 on their own are malformed UTF-8.
Alphabet == {97, 32, LF, CR, 194, 195, 169}

\* bytes used for line contents in SpecLines: 'a', 'b' and a lone lead byte
LineAlphabet == {97, 98, 195}

SeqsUpTo(S, n) == UNION {[1..k -> S] : k \in 0..n}

Inputs == SeqsUpTo(Alphabet, MaxLen)

RepeatInputs == SeqsUpTo(Alphabet, MaxRepeatLen)

LineSeqs == SeqsUpTo(SeqsUpTo(LineAlphabet, MaxLineLen), MaxLines)

CountOption == {"Char", "Word", "Line"}

Min(S) == CHOOSE x \in S : \A y \in S : x <= y

----------------------------------------------------------------------------
(* UTF-8: core::str::from_utf8, str::chars, char::to_string *)

IsCont(b) == b >= 128 /\ b <= 191

\* Width of the well-formed sequence starting at s[i], 0 when malformed.
SeqWidth(s, i) ==
    LET b == s[i]
        n == Len(s)
        Cont(j) == j <= n /\ IsCont(s[j])
        In(j, lo, hi) == j <= n /\ s[j] >= lo /\ s[j] <= hi
    IN  IF b < 128 THEN 1
        ELSE IF b >= 194 /\ b <= 223 THEN (IF Cont(i + 1) THEN 2 ELSE 0)
        ELSE IF b >= 224 /\ b <= 239 THEN
            IF /\ \/ b = 224 /\ In(i + 1, 160, 191)
                  \/ b >= 225 /\ b <= 236 /\ In(i + 1, 128, 191)
                  \/ b = 237 /\ In(i + 1, 128, 159)
                  \/ b >= 238 /\ In(i + 1, 128, 191)
               /\ Cont(i + 2)
            THEN 3 ELSE 0
        ELSE IF b >= 240 /\ b <= 244 THEN
            IF /\ \/ b = 240 /\ In(i + 1, 144, 191)
                  \/ b >= 241 /\ b <= 243 /\ In(i + 1, 128, 191)
                  \/ b = 244 /\ In(i + 1, 128, 143)
               /\ Cont(i + 2)
               /\ Cont(i + 3)
            THEN 4 ELSE 0
        ELSE 0

RECURSIVE Utf8From(_, _)
Utf8From(s, i) ==
    IF i > Len(s) THEN TRUE
    ELSE LET w == SeqWidth(s, i) IN w > 0 /\ Utf8From(s, i + w)

ValidUtf8(s) == Utf8From(s, 1)

CodePoint(s, i, w) ==
    IF w = 1 THEN s[i]
    ELSE IF w = 2 THEN (s[i] % 32) * 64 + (s[i + 1] % 64)
    ELSE IF w = 3 THEN (s[i] % 16) * 4096 + (s[i + 1] % 64) * 64 + (s[i + 2] % 64)
    ELSE (s[i] % 8) * 262144 + (s[i + 1] % 64) * 4096
            + (s[i + 2] % 64) * 64 + (s[i + 3] % 64)

RECURSIVE CharsFrom(_, _)
CharsFrom(s, i) ==
    IF i > Len(s) THEN <<>>
    ELSE LET w == SeqWidth(s, i)
         IN  <<CodePoint(s, i, w)>> \o CharsFrom(s, i + w)

\* str::chars of a String (always well-formed)
Chars(s) == CharsFrom(s, 1)

\* char::to_string
CharToString(c) ==
    IF c < 128 THEN <<c>>
    ELSE IF c < 2048 THEN <<192 + (c \div 64), 128 + (c % 64)>>
    ELSE IF c < 65536 THEN
        <<224 + (c \div 4096), 128 + ((c \div 64) % 64), 128 + (c % 64)>>
    ELSE <<240 + (c \div 262144), 128 + ((c \div 4096) % 64),
           128 + ((c \div 64) % 64), 128 + (c % 64)>>

RECURSIVE Concat(_)
Concat(ss) == IF ss = <<>> THEN <<>> ELSE Head(ss) \o Concat(Tail(ss))

\* the str slice covering a run of chars
Slice(cs) == Concat([j \in 1..Len(cs) |-> CharToString(cs[j])])

----------------------------------------------------------------------------
(* Regex \w+ (Unicode-aware), lib.rs:52 and 64 *)

\* \w for the scalar values below U+0100: ASCII letters, digits and '_',
\* and the Latin-1 letters.  The inputs of this model decode to scalar
\* values in that range only.
IsWordChar(c) ==
    \/ c >= 48 /\ c <= 57
    \/ c >= 65 /\ c <= 90
    \/ c = 95
    \/ c >= 97 /\ c <= 122
    \/ c \in {170, 181, 186}
    \/ c >= 192 /\ c <= 214
    \/ c >= 216 /\ c <= 246
    \/ c >= 248 /\ c <= 255

\* last index of the greedy \w+ match that starts at cs[i]
RunEnd(cs, i) ==
    LET stops == {j \in i..Len(cs) : ~IsWordChar(cs[j])}
    IN  IF stops = {} THEN Len(cs) ELSE Min(stops) - 1

\* Regex::find_iter: leftmost, non-overlapping matches, left to right
RECURSIVE FindIterFrom(_, _)
FindIterFrom(cs, i) ==
    IF i > Len(cs) THEN <<>>
    ELSE IF ~IsWordChar(cs[i]) THEN FindIterFrom(cs, i + 1)
    ELSE LET e == RunEnd(cs, i)
         IN  <<SubSeq(cs, i, e)>> \o FindIterFrom(cs, e + 1)

FindIter(line) == FindIterFrom(Chars(line), 1)

----------------------------------------------------------------------------
(* BufRead::lines, lib.rs:55 *)

\* read_until(b'\n'): the number of bytes taken from position p, the '\n'
\* included; 0 at end of input
ReadUntil(bytes, p) ==
    LET nl == {i \in (p + 1)..Len(bytes) : bytes[i] = LF}
    IN  IF nl = {} THEN Len(bytes) - p ELSE Min(nl) - p

Chunk(bytes, p) == SubSeq(bytes, p + 1, p + ReadUntil(bytes, p))

\* mutant: an input always holds a first line, as str::split('\n') has it
HasLineAtStart(bytes, p) == ReadUntil(bytes, p) > 0 \/ p = 0

\* Lines::next: None when read_line read no byte, Some(_) otherwise
HasLine(bytes, p) == ReadUntil(bytes, p) > 0

\* mutant: only the "\n" is dropped
StripTerminatorLfOnly(chunk) ==
    LET n == Len(chunk)
    IN  IF n > 0 /\ chunk[n] = LF THEN SubSeq(chunk, 1, n - 1) ELSE chunk

\* mutant: every '\r' before the "\n" is dropped
RECURSIVE TrimCRs(_)
TrimCRs(s) ==
    IF s # <<>> /\ s[Len(s)] = CR THEN TrimCRs(SubSeq(s, 1, Len(s) - 1)) ELSE s

StripTerminatorAllCr(chunk) ==
    LET n == Len(chunk)
    IN  IF n > 0 /\ chunk[n] = LF THEN TrimCRs(SubSeq(chunk, 1, n - 1)) ELSE chunk

\* Lines::next on a chunk that decoded: drop a final "\n", then one "\r"
StripTerminator(chunk) ==
    LET n == Len(chunk)
    IN  IF n > 0 /\ chunk[n] = LF
        THEN IF n > 1 /\ chunk[n - 1] = CR
             THEN SubSeq(chunk, 1, n - 2)
             ELSE SubSeq(chunk, 1, n - 1)
        ELSE chunk

\* read_line: Err(InvalidData) when the bytes read are not UTF-8
LineIsOk(chunk) == ValidUtf8(chunk)

\* mutant: the malformed line is skipped and the loop goes on
UnwrapErrSkipped == "next"

\* line.unwrap() on Some(Err(_)), lib.rs:56: the call panics
UnwrapErr == "panicked"

----------------------------------------------------------------------------
(* The match on option, lib.rs:57-70: the units one line contributes *)

\* mutant: line.bytes() in place of line.chars()
CharUnitsBytes(line) == [j \in 1..Len(line) |-> <<line[j]>>]

\* lib.rs:59-60  for c in line.chars() { entry(c.to_string()) }
CharUnits(line) ==
    LET cs == Chars(line) IN [j \in 1..Len(cs) |-> CharToString(cs[j])]

\* mutant: the pattern \w in place of \w+
WordUnitsNoPlus(line) ==
    LET cs == Chars(line)
        ws == SelectSeq(cs, IsWordChar)
    IN  [j \in 1..Len(ws) |-> CharToString(ws[j])]

\* lib.rs:64-65  for m in re.find_iter(&line) { m.as_str().to_string() }
WordUnits(line) ==
    LET ms == FindIter(line) IN [j \in 1..Len(ms) |-> Slice(ms[j])]

\* mutant: empty lines are not counted
LineUnitsSkipEmpty(line) == IF line = <<>> THEN <<>> ELSE <<line>>

\* lib.rs:69  entry(line.to_string())
LineUnits(line) == <<line>>

Units(opt, line) ==
    CASE opt = "Char" -> CharUnits(line)
      [] opt = "Word" -> WordUnits(line)
      [] opt = "Line" -> LineUnits(line)

----------------------------------------------------------------------------
(* HashMap<String, usize> *)

\* mutant: the map of the previous call is used again
HashMapNewStale == freqs

\* HashMap::new(), lib.rs:53
HashMapNew == <<>>

\* entry(k).or_insert(v): the map with k present
OrInsert(f, k, v) ==
    IF k \in DOMAIN f THEN f
    ELSE [x \in DOMAIN f \cup {k} |-> IF x = k THEN v ELSE f[x]]

\* mutant: or_insert(1) in place of or_insert(0)
IncrementFromOne(f, k) == [OrInsert(f, k, 1) EXCEPT ![k] = @ + 1]

\* mutant: freqs.insert(k, 1) in place of the entry update
IncrementOverwrite(f, k) ==
    [x \in DOMAIN f \cup {k} |-> IF x = k THEN 1 ELSE f[x]]

\* *freqs.entry(k).or_insert(0) += 1
Increment(f, k) == [OrInsert(f, k, 0) EXCEPT ![k] = @ + 1]

RECURSIVE SumOver(_, _)
SumOver(f, S) ==
    IF S = {} THEN 0
    ELSE LET k == CHOOSE x \in S : TRUE IN f[k] + SumOver(f, S \ {k})

\* total of the map's values
Total(f) == SumOver(f, DOMAIN f)

Occurrences(u, us) == Cardinality({i \in 1..Len(us) : us[i] = u})

----------------------------------------------------------------------------
(* count, lib.rs:51-74 *)

TypeOK ==
    /\ option \in CountOption
    /\ pos \in 0..Len(input)
    /\ pc \in {"idle", "next", "body", "returned", "panicked"}

\* entry of count: lib.rs:52-53
Invoke(bytes, opt) ==
    /\ input' = bytes
    /\ option' = opt
    /\ pos' = 0
    /\ pending' = <<>>
    /\ freqs' = HashMapNew
    /\ seen' = <<>>
    /\ pc' = "next"
    /\ UNCHANGED <<history, lines>>

Call ==
    /\ pc = "idle"
    /\ Invoke(input, option)

\* lines.next() yields Some(Ok(line)); the match computes the line's units
LinesNextOk ==
    /\ pc = "next"
    /\ HasLine(input, pos)
    /\ LET chunk == Chunk(input, pos)
       IN  /\ LineIsOk(chunk)
           /\ pos' = pos + Len(chunk)
           /\ pending' = Units(option, StripTerminator(chunk))
           /\ pc' = IF pending' = <<>> THEN "next" ELSE "body"
    /\ UNCHANGED <<input, option, freqs, seen, history, lines>>

\* lines.next() yields Some(Err(_)); line.unwrap() panics, lib.rs:56
LinesNextErr ==
    /\ pc = "next"
    /\ HasLine(input, pos)
    /\ LET chunk == Chunk(input, pos)
       IN  /\ ~LineIsOk(chunk)
           /\ pos' = pos + Len(chunk)
    /\ pc' = UnwrapErr
    /\ UNCHANGED <<input, option, pending, freqs, seen, history, lines>>

\* lines.next() yields None; count returns freqs, lib.rs:73
LinesNextNone ==
    /\ pc = "next"
    /\ ~HasLine(input, pos)
    /\ pc' = "returned"
    /\ history' = Append(history,
                         [input |-> input, option |-> option, result |-> freqs])
    /\ UNCHANGED <<input, option, pos, pending, freqs, seen, lines>>

\* one *freqs.entry(unit).or_insert(0) += 1, lib.rs:60, 66, 69
Entry ==
    /\ pc = "body"
    /\ pending # <<>>
    /\ freqs' = Increment(freqs, Head(pending))
    /\ seen' = Append(seen, Head(pending))
    /\ pending' = Tail(pending)
    /\ pc' = IF pending' = <<>> THEN "next" ELSE "body"
    /\ UNCHANGED <<input, option, pos, history, lines>>

InitCommon ==
    /\ option \in CountOption
    /\ pos = 0
    /\ pending = <<>>
    /\ freqs = <<>>
    /\ pc = "idle"
    /\ seen = <<>>
    /\ history = <<>>

\* one call of count on any input, under any option
Init ==
    /\ InitCommon
    /\ input \in Inputs
    /\ lines = <<>>

Next == Call \/ LinesNextOk \/ LinesNextErr \/ LinesNextNone \/ Entry

Spec == Init /\ [][Next]_vars

----------------------------------------------------------------------------
(* A second call on an equal input with the same option *)

Recall ==
    /\ pc = "returned"
    /\ Len(history) < MaxCalls
    /\ Invoke(input, option)

InitRepeat ==
    /\ InitCommon
    /\ input \in RepeatInputs
    /\ lines = <<>>

NextRepeat ==
    Call \/ Recall \/ LinesNextOk \/ LinesNextErr \/ LinesNextNone \/ Entry

SpecRepeat == InitRepeat /\ [][NextRepeat]_vars

----------------------------------------------------------------------------
(* The same lines written with each terminator convention, counted under   *)
(* Line one rendering after the other (tests/line.rs)                      *)

\* tests/line.rs:11-16 separates with "\n" and ends with one; tests/line.rs:27
\* separates with "\r\n" and ends with none
Renderings ==
    << [sep |-> <<LF>>, final |-> FALSE],
       [sep |-> <<LF>>, final |-> TRUE],
       [sep |-> <<CR, LF>>, final |-> FALSE],
       [sep |-> <<CR, LF>>, final |-> TRUE] >>

RECURSIVE Join(_, _)
Join(ls, sep) ==
    IF ls = <<>> THEN <<>>
    ELSE IF Len(ls) = 1 THEN ls[1]
    ELSE ls[1] \o sep \o Join(Tail(ls), sep)

Render(ls, r) ==
    IF ls = <<>> THEN <<>>
    ELSE Join(ls, r.sep) \o (IF r.final THEN r.sep ELSE <<>>)

CallRendered ==
    /\ pc \in {"idle", "returned"}
    /\ Len(history) < Len(Renderings)
    /\ Invoke(Render(lines, Renderings[Len(history) + 1]), option)

InitLines ==
    /\ InitCommon
    /\ option = "Line"
    /\ input = <<>>
    /\ lines \in LineSeqs

NextLines ==
    CallRendered \/ LinesNextOk \/ LinesNextErr \/ LinesNextNone \/ Entry

SpecLines == InitLines /\ [][NextLines]_vars

----------------------------------------------------------------------------
(* Reference definitions the properties are stated with.  They are read off *)
(* the whole input, not computed by the line loop.                          *)

Positions(s, P(_, _)) == Cardinality({i \in 1..Len(s) : P(s, i)})

IsTerminatorByte(s, i) ==
    \/ s[i] = LF
    \/ s[i] = CR /\ i < Len(s) /\ s[i + 1] = LF

IsScalarStart(s, i) == ~IsCont(s[i])

\* scalar values of s that are not part of a line terminator
RefScalarCount(s) ==
    LET P(t, i) == IsScalarStart(t, i) /\ ~IsTerminatorByte(t, i)
    IN  Positions(s, P)

\* cs[i..e] is a maximal run of word characters
IsMaximalRun(cs, i, e) ==
    /\ i <= e
    /\ \A j \in i..e : IsWordChar(cs[j])
    /\ i = 1 \/ ~IsWordChar(cs[i - 1])
    /\ e = Len(cs) \/ ~IsWordChar(cs[e + 1])

\* maximal runs of word characters in s (a well-formed string); '\n' is not
\* a word character, so no run spans two lines
RefRunCount(s) ==
    LET cs == Chars(s)
    IN  Cardinality({i \in 1..Len(cs) :
                        \E e \in i..Len(cs) : IsMaximalRun(cs, i, e)})

\* first byte of every line of s: the first byte, and each byte after a '\n'
RefLineStarts(s) == {i \in 1..Len(s) : i = 1 \/ s[i - 1] = LF}

\* position of the '\n' ending the line that starts at st; Len(s) + 1 if none
RefLineStop(s, st) ==
    Min({i \in st..Len(s) : s[i] = LF} \cup {Len(s) + 1})

\* content of the line starting at st: up to its "\n" or "\r\n" or the end
RefLineAt(s, st) ==
    LET e == RefLineStop(s, st)
    IN  IF e <= Len(s) /\ e > st /\ s[e - 1] = CR
        THEN SubSeq(s, st, e - 2)
        ELSE SubSeq(s, st, e - 1)

\* last byte of every line of s
RefLineEnds(s) == {i \in 1..Len(s) : s[i] = LF \/ i = Len(s)}

\* '\r' bytes that are not followed by '\n'
RefRetainedCR(s) ==
    LET P(t, i) == t[i] = CR /\ ~IsTerminatorByte(t, i) IN Positions(s, P)

RefUnitCount(opt, s) ==
    CASE opt = "Char" -> RefScalarCount(s)
      [] opt = "Word" -> RefRunCount(s)
      [] opt = "Line" -> Cardinality(RefLineStarts(s))

Prefix(s, n) == SubSeq(s, 1, n)

Range(us) == {us[i] : i \in 1..Len(us)}

Returned == pc = "returned"

----------------------------------------------------------------------------
(* C1: when count returns, the map has one entry per distinct unit counted, *)
(* each value is the number of occurrences of its key, no key is absent     *)
(* from the units and no value is 0; the units counted are as many as the   *)
(* input holds.                                                             *)
C1_ExactCounts ==
    Returned =>
        /\ DOMAIN freqs = Range(seen)
        /\ \A k \in DOMAIN freqs : freqs[k] = Occurrences(k, seen) /\ freqs[k] >= 1
        /\ Len(seen) = RefUnitCount(option, input)

C1_Witness ==
    /\ Returned
    /\ \E k1, k2 \in DOMAIN freqs : freqs[k1] = 2 /\ freqs[k2] = 1

----------------------------------------------------------------------------
\* end of the first line of s that is not well-formed UTF-8
RefFirstBadLineEnd(s) ==
    Min({e \in RefLineEnds(s) : ~ValidUtf8(Prefix(s, e))})

RefLineStartBefore(s, e) ==
    CHOOSE st \in RefLineStarts(s) :
        st <= e /\ \A t \in RefLineStarts(s) : t <= e => t <= st

C2_Inv ==
    /\ pc \in {"next", "body", "returned"} => ValidUtf8(Prefix(input, pos))
    /\ Returned => ValidUtf8(input) /\ pos = Len(input)
    /\ pc = "panicked" =>
        /\ ~ValidUtf8(input)
        /\ pos = RefFirstBadLineEnd(input)
        /\ history = <<>>
        /\ pending = <<>>
        /\ Len(seen) = RefUnitCount(option,
                          Prefix(input, RefLineStartBefore(input, pos) - 1))

(* C2: a line that is not UTF-8 fails the call when it is read: while the   *)
(* call runs or after it returned every byte consumed belongs to well-formed*)
(* lines, a call only returns on a well-formed input, the panic happens at  *)
(* the end of the first malformed line with nothing returned and nothing    *)
(* counted from that line, and nothing changes after the panic.             *)
C2_FailsWholeCall ==
    /\ []C2_Inv
    /\ [][pc = "panicked" => UNCHANGED vars]_vars
    /\ [][~ValidUtf8(input) => pc' # "returned"]_vars

C2_Witness ==
    /\ pc = "panicked"
    /\ seen # <<>>
    /\ pos < Len(input)

----------------------------------------------------------------------------
(* C3 as stated: under Line every rendering of the same lines ("\n" or      *)
(* "\r\n" between them, with or without one after the last) returns the     *)
(* same map.                                                                *)
C3_AllRenderingsAgree ==
    \A i, j \in 1..Len(history) : history[i].result = history[j].result

\* the map that counts the line contents themselves
LineCounts(ls) == [k \in Range(ls) |-> Occurrences(k, ls)]

(* C3 amended: the renderings that end with a terminator, and all           *)
(* renderings of lines whose last line is not empty, return the map of the  *)
(* line contents; "\n" and "\r\n" always agree with each other.             *)
C3_RenderingsAgree ==
    /\ \A i \in 1..Len(history) :
          (\/ Renderings[i].final
           \/ lines = <<>>
           \/ lines[Len(lines)] # <<>>)
          => history[i].result = LineCounts(lines)
    /\ \A i, j \in 1..Len(history) :
          Renderings[i].final = Renderings[j].final
          => history[i].result = history[j].result

C3_Witness ==
    /\ Len(history) = Len(Renderings)
    /\ Len(lines) = 2
    /\ lines[1] # lines[2]
    /\ lines[2] # <<>>
    /\ Returned

----------------------------------------------------------------------------
(* C4: under Word the counts add up to the number of maximal runs of word   *)
(* characters of the input, and every key is such a run: not empty, word    *)
(* characters only, bounded on both sides in the input.                     *)
C4_WordRuns ==
    (Returned /\ option = "Word") =>
        /\ Total(freqs) = RefRunCount(input)
        /\ \A k \in DOMAIN freqs :
              /\ k # <<>>
              /\ ValidUtf8(k)
              /\ \A j \in 1..Len(Chars(k)) : IsWordChar(Chars(k)[j])
              /\ LET cs == Chars(input)
                 IN  \E i \in 1..Len(cs) : \E e \in i..Len(cs) :
                        IsMaximalRun(cs, i, e) /\ SubSeq(cs, i, e) = Chars(k)

C4_Witness ==
    /\ Returned
    /\ option = "Word"
    /\ \E k \in DOMAIN freqs : Len(k) = 3
    /\ Cardinality(DOMAIN freqs) = 1
    /\ \E i \in 1..Len(input) : input[i] = 169

----------------------------------------------------------------------------
(* C5: under Char the counts add up to the number of scalar values of the   *)
(* input outside line terminators, every key is one scalar value, and "\n"  *)
(* is not a key.                                                            *)
C5_CharScalars ==
    (Returned /\ option = "Char") =>
        /\ Total(freqs) = RefScalarCount(input)
        /\ \A k \in DOMAIN freqs :
              ValidUtf8(k) /\ Len(Chars(k)) = 1 /\ k # <<LF>>

C5_Witness ==
    /\ Returned
    /\ option = "Char"
    /\ \E k \in DOMAIN freqs : Len(k) = 2
    /\ \E i \in 1..Len(input) : input[i] = LF
    /\ Total(freqs) = 2

----------------------------------------------------------------------------
(* C6: under Line the counts add up to the number of lines of the input (an *)
(* empty line counts, a terminator after the last line adds none), and the  *)
(* value of a key is the number of lines with exactly that content.         *)
C6_LineCounts ==
    (Returned /\ option = "Line") =>
        LET starts == RefLineStarts(input)
        IN  /\ Total(freqs) = Cardinality(starts)
            /\ DOMAIN freqs = {RefLineAt(input, st) : st \in starts}
            /\ \A k \in DOMAIN freqs :
                  freqs[k] = Cardinality({st \in starts : RefLineAt(input, st) = k})

C6_Witness ==
    /\ Returned
    /\ option = "Line"
    /\ <<>> \in DOMAIN freqs
    /\ Cardinality(DOMAIN freqs) = 2
    /\ input[Len(input)] = LF

----------------------------------------------------------------------------
(* C7: calls on equal inputs with the same option return equal maps, and    *)
(* every call starts from an empty map.                                     *)
C7_Deterministic ==
    /\ \A i, j \in 1..Len(history) :
          (history[i].input = history[j].input
              /\ history[i].option = history[j].option)
          => history[i].result = history[j].result
    /\ (pc = "next" /\ pos = 0) => freqs = <<>>

C7_Witness ==
    /\ Len(history) = 2
    /\ history[1].input = history[2].input
    /\ history[1].result # <<>>

----------------------------------------------------------------------------
(* C8: on the empty input the call does not panic, counts nothing, can      *)
(* return from the loop head, and returns the empty map.                    *)
C8_EmptyInput ==
    (input = <<>> /\ pc # "idle") =>
        /\ pc \in {"next", "returned"}
        /\ freqs = <<>>
        /\ pc = "next" => ENABLED LinesNextNone
        /\ Returned => history[Len(history)].result = <<>>

C8_Witness ==
    /\ input = <<>>
    /\ Returned
    /\ history # <<>>

----------------------------------------------------------------------------
\* state and step conditions of the fold
C9_Inv ==
    pc # "idle" =>
        /\ \A k \in DOMAIN freqs : freqs[k] >= 1
        /\ Total(freqs) = Len(seen)
        /\ pc \in {"next", "returned"} =>
              Total(freqs) = RefUnitCount(option, Prefix(input, pos))

C9_MapStep ==
    \/ freqs' = freqs
    \/ \E k \in DOMAIN freqs' :
          /\ k \notin DOMAIN freqs
          /\ DOMAIN freqs' = DOMAIN freqs \cup {k}
          /\ freqs'[k] = 1
          /\ \A x \in DOMAIN freqs : freqs'[x] = freqs[x]
    \/ \E k \in DOMAIN freqs :
          /\ DOMAIN freqs' = DOMAIN freqs
          /\ freqs'[k] = freqs[k] + 1
          /\ \A x \in DOMAIN freqs \ {k} : freqs'[x] = freqs[x]

C9_ReadStep ==
    \/ pos' = pos
    \/ /\ pc = "next"
       /\ pos' > pos
       /\ pos' \in RefLineEnds(input)
       /\ \A e \in RefLineEnds(input) : e > pos => e >= pos'

(* C9: the fold.  In every state of a call all values are at least 1 and    *)
(* add up to the units counted so far, which at the loop head are the units *)
(* of the bytes consumed; a step leaves the map alone, adds one key with    *)
(* value 1 or adds 1 to one value; the read position only moves forward,    *)
(* from the loop head, by exactly one line.                                 *)
C9_Fold ==
    /\ []C9_Inv
    /\ [][pc # "idle" => C9_MapStep /\ C9_ReadStep]_vars

C9_Witness ==
    /\ pc = "body"
    /\ \E i \in 1..(pos - 1) : input[i] = LF
    /\ \E k \in DOMAIN freqs : freqs[k] = 2

----------------------------------------------------------------------------
\* '\r' bytes held by the keys of a map, each key weighted by its value
CRsIn(k) == Cardinality({i \in 1..Len(k) : k[i] = CR})

RECURSIVE WeightedCRs(_, _)
WeightedCRs(f, S) ==
    IF S = {} THEN 0
    ELSE LET k == CHOOSE x \in S : TRUE
         IN  f[k] * CRsIn(k) + WeightedCRs(f, S \ {k})

(* C10: only "\n" and "\r\n" end a line.  Under Line no key holds a '\n'    *)
(* and the '\r' bytes in the keys are exactly those of the input that are   *)
(* not followed by '\n'; under Char those same '\r' are counted under the   *)
(* key "\r".  So "a\ra" is one line and "a\na" two, and "\r\r\n" is the     *)
(* line "\r".                                                               *)
C10_Terminators ==
    Returned =>
        /\ option = "Line" =>
              /\ \A k \in DOMAIN freqs : \A i \in 1..Len(k) : k[i] # LF
              /\ WeightedCRs(freqs, DOMAIN freqs) = RefRetainedCR(input)
              /\ input = <<97, CR, 97>> => freqs = (<<97, CR, 97>> :> 1)
              /\ input = <<97, LF, 97>> => freqs = (<<97>> :> 2)
              /\ input = <<CR, CR, LF>> => freqs = (<<CR>> :> 1)
        /\ option = "Char" =>
              /\ <<CR>> \in DOMAIN freqs <=> RefRetainedCR(input) > 0
              /\ <<CR>> \in DOMAIN freqs => freqs[<<CR>>] = RefRetainedCR(input)

C10_Witness ==
    /\ Returned
    /\ option = "Char"
    /\ <<CR>> \in DOMAIN freqs
    /\ \E i \in 1..Len(input) : IsTerminatorByte(input, i) /\ input[i] = CR

====
